---------------------------- MODULE Spec2Model ----------------------------
(***************************************************************************)
(* markdown-to-epub: the `generate` command.                               *)
(*                                                                         *)
(* Strings whose characters matter (the Markdown content, the input path,  *)
(* the title) are sequences of one-character strings.  Errors are the      *)
(* chain of their message formats, outermost wrapper first; Nil is the     *)
(* nil error.  The input file and the output file are distinct files.      *)
(***************************************************************************)
EXTENDS Naturals, Sequences, FiniteSets

VARIABLES
    generateOps,   \* the flags: markdownFilename, epubFilename, overwrite, title, author, language
    inKind,        \* what the input path references: "absent", "file" or "dir"
    outFile,       \* the output path: "absent", "old" (a file from before the run), "new", "partial"
    tmpFile,       \* the temporary stylesheet: "none", "empty", "written", "removed"
    content,       \* runGenerate: the bytes read from the input file
    htmlContent,   \* runGenerate: the converted HTML
    title,         \* runGenerate: the resolved title
    e,             \* createEpub: the EPUB document being built
    cssPath,       \* createEpub: the path AddCSS returned
    runErr,        \* the error runGenerate returns
    stdout,        \* lines printed to standard output
    stderr,        \* lines printed to standard error
    exitCode,      \* the exit status once the process has ended
    steps,         \* the pipeline steps started so far, in order
    pc             \* the position of the run

vars == <<generateOps, inKind, outFile, tmpFile, content, htmlContent, title, e,
          cssPath, runErr, stdout, stderr, exitCode, steps, pc>>

----------------------------------------------------------------------------
(* Bounds *)

MaxRunContentLen == 2
MaxRunPathLen == 2
MaxTitleContentLen == 5
MaxTitlePathLen == 3
MaxExtractLen == 7

ContentAlphabet == {"#", " ", "x", "\n"}
PathAlphabet == {"a", ".", "/"}
TitleFlags == {<<>>, <<"T">>}
Authors == {"", "A"}

SeqsUpTo(S, n) == UNION {[1..k -> S] : k \in 0..n}

----------------------------------------------------------------------------
(* Go string functions *)

IsSpace(c) == c \in {" ", "\t", "\n", "\r"}

RECURSIVE TrimLeftSpace(_)
TrimLeftSpace(s) ==
    IF s = <<>> THEN s
    ELSE IF IsSpace(Head(s)) THEN TrimLeftSpace(Tail(s)) ELSE s

RECURSIVE TrimRightSpace(_)
TrimRightSpace(s) ==
    IF s = <<>> THEN s
    ELSE IF IsSpace(s[Len(s)]) THEN TrimRightSpace(SubSeq(s, 1, Len(s) - 1)) ELSE s

\* strings.TrimSpace
TrimSpace(s) == TrimRightSpace(TrimLeftSpace(s))

\* strings.HasPrefix
HasPrefix(s, p) == Len(s) >= Len(p) /\ SubSeq(s, 1, Len(p)) = p

\* strings.HasSuffix
HasSuffix(s, p) == Len(s) >= Len(p) /\ SubSeq(s, Len(s) - Len(p) + 1, Len(s)) = p

\* strings.CutPrefix: (after, found)
CutPrefix(s, p) ==
    IF HasPrefix(s, p)
    THEN [after |-> SubSeq(s, Len(p) + 1, Len(s)), ok |-> TRUE]
    ELSE [after |-> s, ok |-> FALSE]

\* strings.TrimSuffix
TrimSuffix(s, suffix) ==
    IF HasSuffix(s, suffix) THEN SubSeq(s, 1, Len(s) - Len(suffix)) ELSE s

\* strings.SplitSeq(s, sep) for a one-character separator: the pieces between
\* the separators, in order; a string without separator is one piece.
RECURSIVE SplitAcc(_, _, _)
SplitAcc(s, sep, cur) ==
    IF s = <<>> THEN <<cur>>
    ELSE IF Head(s) = sep THEN <<cur>> \o SplitAcc(Tail(s), sep, <<>>)
    ELSE SplitAcc(Tail(s), sep, Append(cur, Head(s)))

SplitSeq(s, sep) == SplitAcc(s, sep, <<>>)

----------------------------------------------------------------------------
(* Go path/filepath functions (Unix separators) *)

RECURSIVE StripTrailingSlashes(_)
StripTrailingSlashes(path) ==
    IF path /= <<>> /\ path[Len(path)] = "/"
    THEN StripTrailingSlashes(SubSeq(path, 1, Len(path) - 1))
    ELSE path

\* the part of path after its last separator (all of it when it has none)
RECURSIVE LastElement(_, _)
LastElement(path, i) ==
    IF i >= 1 /\ path[i] /= "/" THEN LastElement(path, i - 1)
    ELSE SubSeq(path, i + 1, Len(path))

\* filepath.Base
Base(path) ==
    IF path = <<>> THEN <<".">>
    ELSE LET p == StripTrailingSlashes(path) IN
         IF p = <<>> THEN <<"/">> ELSE LastElement(p, Len(p))

\* filepath.Ext: the suffix from the final dot of the final element
RECURSIVE ExtFrom(_, _)
ExtFrom(path, i) ==
    IF i >= 1 /\ path[i] /= "/"
    THEN IF path[i] = "." THEN SubSeq(path, i, Len(path)) ELSE ExtFrom(path, i - 1)
    ELSE <<>>

Ext(path) == ExtFrom(path, Len(path))

----------------------------------------------------------------------------
(* Errors *)

Nil == <<>>

\* fmt.Errorf("<prefix>: %w", err)
Wrap(prefix, err) == <<prefix>> \o err

ErrMissingInput == <<"markdown file %s does not exist">>
ErrOutputExists == <<"epub file %s already exists, use option -f to overwrite">>
ErrOS == <<"os error">>
ErrGoldmark == <<"goldmark error">>
ErrEpubLib == <<"go-epub error">>

----------------------------------------------------------------------------
(* The functions of the generate command *)

\* iohelper.IsFileExist on the input and the output path
InputExists == inKind /= "absent"
OutputExists == outFile /= "absent"

\* as validateGenerateOptions, the overwrite flag not consulted
validateGenerateOptions_IgnoreOverwrite(options, inputExists, outputExists) ==
    IF ~inputExists THEN ErrMissingInput
    ELSE IF outputExists THEN ErrOutputExists
    ELSE Nil

\* as validateGenerateOptions, the output path not checked
validateGenerateOptions_NoOutputCheck(options, inputExists, outputExists) ==
    IF ~inputExists THEN ErrMissingInput ELSE Nil

validateGenerateOptions(options, inputExists, outputExists) ==
    IF ~inputExists THEN ErrMissingInput
    ELSE IF outputExists /\ ~options.overwrite THEN ErrOutputExists
    ELSE Nil

RECURSIVE ScanLines(_)
ScanLines(lines) ==
    IF lines = <<>> THEN <<>>
    ELSE LET line == TrimSpace(Head(lines))
             cut == CutPrefix(line, <<"#", " ">>)
         IN  IF cut.ok THEN cut.after ELSE ScanLines(Tail(lines))

extractTitleFromMarkdown(c) == ScanLines(SplitSeq(c, "\n"))

\* the filename fallback of runGenerate
FilenameStem(path) == TrimSuffix(Base(path), Ext(path))

\* as ResolveTitle, the heading taking precedence over the flag
ResolveTitle_HeadingFirst(flag, c, path) ==
    LET t == extractTitleFromMarkdown(c) IN
      IF t /= <<>> THEN t
      ELSE IF flag /= <<>> THEN flag ELSE FilenameStem(path)

\* as ResolveTitle, without the filename fallback
ResolveTitle_NoFallback(flag, c, path) ==
    IF flag /= <<>> THEN flag ELSE extractTitleFromMarkdown(c)

\* runGenerate, "Determine title"
ResolveTitle(flag, c, path) ==
    IF flag /= <<>> THEN flag
    ELSE LET t == extractTitleFromMarkdown(c) IN
         IF t /= <<>> THEN t ELSE FilenameStem(path)

\* as convertMarkdownToHTML, wrapping goldmark's error itself
convertMarkdownToHTML_Rewrap(c, ok) ==
    IF ok THEN [html |-> [kind |-> "html", text |-> c], err |-> Nil]
    ELSE [html |-> [kind |-> "none", text |-> <<>>],
          err |-> <<"failed to convert markdown to HTML">> \o <<"goldmark error">>]

\* convertMarkdownToHTML: goldmark's result, or its error unchanged
convertMarkdownToHTML(c, ok) ==
    IF ok THEN [html |-> [kind |-> "html", text |-> c], err |-> Nil]
    ELSE [html |-> [kind |-> "none", text |-> <<>>], err |-> ErrGoldmark]

generateCoverPage(t) == [kind |-> "cover", text |-> t]

NoHTML == [kind |-> "none", text |-> <<>>]
NoEpub == [created |-> FALSE, title |-> <<>>, lang |-> "", author |-> "",
           css |-> {}, sections |-> <<>>]
StyleCssPath == "../css/style.css"

\* a path os.ReadFile can read as a regular file: not empty, no trailing
\* separator, and its final element is neither "." nor ".."
IsRegularFilePath(path) ==
    /\ path /= <<>>
    /\ path[Len(path)] /= "/"
    /\ Base(path) \notin {<<".">>, <<".", ".">>}


\* as osRemove, the file left in place
osRemove_Leak(t) == t

\* os.Remove(tmpFile.Name()), deferred in createEpub
osRemove(t) == "removed"

SuccessMessage == <<"Successfully created %s", "out.epub">>

\* as epubWrite, the archive written somewhere else than the output path
epubWrite_WrongPath(ok, old) == {old}

\* e.Write(generateOps.epubFilename): the states it can leave the output path
\* in.  A failed write leaves it as it was or with a partial file.
epubWrite(ok, old) == IF ok THEN {"new"} ELSE {old, "partial"}

----------------------------------------------------------------------------
(* The run of `markdown-to-epub generate` *)

RunContents == SeqsUpTo(ContentAlphabet, MaxRunContentLen)
RunPaths == SeqsUpTo(PathAlphabet, MaxRunPathLen)

Init ==
    /\ generateOps \in [markdownFilename : RunPaths, epubFilename : {"out.epub"},
                        overwrite : BOOLEAN, title : TitleFlags,
                        author : Authors, language : {"en"}]
    /\ inKind \in {"absent", "file", "dir"}
    /\ inKind = "file" => IsRegularFilePath(generateOps.markdownFilename)
    /\ generateOps.markdownFilename = <<>> => inKind = "absent"
    /\ outFile \in {"absent", "old"}
    /\ tmpFile = "none"
    /\ content = <<>>
    /\ htmlContent = NoHTML
    /\ title = <<>>
    /\ e = NoEpub
    /\ cssPath = ""
    /\ runErr = Nil
    /\ stdout = <<>>
    /\ stderr = <<>>
    /\ exitCode = <<>>
    /\ steps = <<>>
    /\ pc = "start"

\* runGenerate: validateGenerateOptions and the early return
Validate ==
    /\ pc = "start"
    /\ steps' = Append(steps, "validate")
    /\ LET err == validateGenerateOptions(generateOps, InputExists, OutputExists) IN
         IF err /= Nil
         THEN runErr' = err /\ pc' = "returned"
         ELSE runErr' = runErr /\ pc' = "read"
    /\ UNCHANGED <<generateOps, inKind, outFile, tmpFile, content, htmlContent, title,
                   e, cssPath, stdout, stderr, exitCode>>

\* runGenerate: os.ReadFile
ReadFile ==
    /\ pc = "read"
    /\ steps' = Append(steps, "read")
    /\ \E ok \in BOOLEAN :
         /\ ok => inKind = "file"
         /\ IF ok
            THEN /\ \E c \in RunContents : content' = c
                 /\ runErr' = runErr
                 /\ pc' = "convert"
            ELSE /\ content' = content
                 /\ runErr' = Wrap("failed to read markdown file", ErrOS)
                 /\ pc' = "returned"
    /\ UNCHANGED <<generateOps, inKind, outFile, tmpFile, htmlContent, title,
                   e, cssPath, stdout, stderr, exitCode>>

\* runGenerate: convertMarkdownToHTML
Convert ==
    /\ pc = "convert"
    /\ steps' = Append(steps, "convert")
    /\ \E ok \in BOOLEAN :
         LET r == convertMarkdownToHTML(content, ok) IN
           IF r.err /= Nil
           THEN /\ htmlContent' = htmlContent
                /\ runErr' = Wrap("failed to convert markdown to HTML", r.err)
                /\ pc' = "returned"
           ELSE /\ htmlContent' = r.html
                /\ runErr' = runErr
                /\ pc' = "title"
    /\ UNCHANGED <<generateOps, inKind, outFile, tmpFile, content, title,
                   e, cssPath, stdout, stderr, exitCode>>

\* runGenerate: determine the title
DetermineTitle ==
    /\ pc = "title"
    /\ steps' = Append(steps, "title")
    /\ title' = ResolveTitle(generateOps.title, content, generateOps.markdownFilename)
    /\ pc' = "newEpub"
    /\ UNCHANGED <<generateOps, inKind, outFile, tmpFile, content, htmlContent,
                   e, cssPath, runErr, stdout, stderr, exitCode>>

\* runGenerate's wrapping of the error createEpub returns
CreateEpubError(stepMessage, cause) ==
    Wrap("failed to create epub", Wrap(stepMessage, cause))

\* createEpub: epub.NewEpub
NewEpub ==
    /\ pc = "newEpub"
    /\ steps' = Append(steps, "newEpub")
    /\ \E ok \in BOOLEAN :
         IF ok
         THEN /\ e' = [NoEpub EXCEPT !.created = TRUE, !.title = title]
              /\ runErr' = runErr
              /\ pc' = "setMeta"
         ELSE /\ e' = e
              /\ runErr' = CreateEpubError("failed to create epub", ErrEpubLib)
              /\ pc' = "returned"
    /\ UNCHANGED <<generateOps, inKind, outFile, tmpFile, content, htmlContent, title,
                   cssPath, stdout, stderr, exitCode>>

\* createEpub: SetLang, and SetAuthor when an author is given
SetMetadata ==
    /\ pc = "setMeta"
    /\ steps' = Append(steps, "setMeta")
    /\ e' = [e EXCEPT !.lang = generateOps.language,
                      !.author = IF generateOps.author /= ""
                                 THEN generateOps.author ELSE @]
    /\ pc' = "createTemp"
    /\ UNCHANGED <<generateOps, inKind, outFile, tmpFile, content, htmlContent, title,
                   cssPath, runErr, stdout, stderr, exitCode>>

\* createEpub: os.CreateTemp and the deferred os.Remove
CreateTemp ==
    /\ pc = "createTemp"
    /\ steps' = Append(steps, "createTemp")
    /\ \E ok \in BOOLEAN :
         IF ok
         THEN /\ tmpFile' = "empty"
              /\ runErr' = runErr
              /\ pc' = "writeCSS"
         ELSE /\ tmpFile' = tmpFile
              /\ runErr' = CreateEpubError("failed to create temp CSS file", ErrOS)
              /\ pc' = "returned"
    /\ UNCHANGED <<generateOps, inKind, outFile, content, htmlContent, title,
                   e, cssPath, stdout, stderr, exitCode>>

\* createEpub: tmpFile.WriteString and Close
WriteCSS ==
    /\ pc = "writeCSS"
    /\ steps' = Append(steps, "writeCSS")
    /\ \E ok \in BOOLEAN :
         IF ok
         THEN /\ tmpFile' = "written"
              /\ runErr' = runErr
              /\ pc' = "addCSS"
         ELSE /\ tmpFile' = osRemove(tmpFile)
              /\ runErr' = CreateEpubError("failed to write CSS to temp file", ErrOS)
              /\ pc' = "returned"
    /\ UNCHANGED <<generateOps, inKind, outFile, content, htmlContent, title,
                   e, cssPath, stdout, stderr, exitCode>>

\* createEpub: e.AddCSS
AddCSS ==
    /\ pc = "addCSS"
    /\ steps' = Append(steps, "addCSS")
    /\ \E ok \in BOOLEAN :
         IF ok
         THEN /\ e' = [e EXCEPT !.css = @ \cup {StyleCssPath}]
              /\ cssPath' = StyleCssPath
              /\ tmpFile' = tmpFile
              /\ runErr' = runErr
              /\ pc' = "addCover"
         ELSE /\ e' = e
              /\ cssPath' = ""
              /\ tmpFile' = osRemove(tmpFile)
              /\ runErr' = CreateEpubError("failed to add CSS", ErrEpubLib)
              /\ pc' = "returned"
    /\ UNCHANGED <<generateOps, inKind, outFile, content, htmlContent, title,
                   stdout, stderr, exitCode>>

\* e.AddSection(body, sectionTitle, filename, css)
AddSection(doc, body, sectionTitle, filename, css) ==
    [doc EXCEPT !.sections =
        Append(@, [body |-> body, title |-> sectionTitle, file |-> filename, css |-> css])]

\* as AddCover, the error of AddSection not checked
AddCover_IgnoreError ==
    /\ pc = "addCover"
    /\ steps' = Append(steps, "addCover")
    /\ \E ok \in BOOLEAN :
         /\ e' = IF ok
                 THEN AddSection(e, generateCoverPage(title), <<"Cover">>, "cover.xhtml", cssPath)
                 ELSE e
         /\ tmpFile' = tmpFile
         /\ runErr' = runErr
         /\ pc' = "addContent"
    /\ UNCHANGED <<generateOps, inKind, outFile, content, htmlContent, title,
                   cssPath, stdout, stderr, exitCode>>

\* createEpub: the cover page section
AddCover ==
    /\ pc = "addCover"
    /\ steps' = Append(steps, "addCover")
    /\ \E ok \in BOOLEAN :
         IF ok
         THEN /\ e' = AddSection(e, generateCoverPage(title), <<"Cover">>, "cover.xhtml", cssPath)
              /\ tmpFile' = tmpFile
              /\ runErr' = runErr
              /\ pc' = "addContent"
         ELSE /\ e' = e
              /\ tmpFile' = osRemove(tmpFile)
              /\ runErr' = CreateEpubError("failed to add cover page", ErrEpubLib)
              /\ pc' = "returned"
    /\ UNCHANGED <<generateOps, inKind, outFile, content, htmlContent, title,
                   cssPath, stdout, stderr, exitCode>>

\* createEpub: the content section
AddContent ==
    /\ pc = "addContent"
    /\ steps' = Append(steps, "addContent")
    /\ \E ok \in BOOLEAN :
         IF ok
         THEN /\ e' = AddSection(e, htmlContent, title, "", cssPath)
              /\ tmpFile' = tmpFile
              /\ runErr' = runErr
              /\ pc' = "write"
         ELSE /\ e' = e
              /\ tmpFile' = osRemove(tmpFile)
              /\ runErr' = CreateEpubError("failed to add section", ErrEpubLib)
              /\ pc' = "returned"
    /\ UNCHANGED <<generateOps, inKind, outFile, content, htmlContent, title,
                   cssPath, stdout, stderr, exitCode>>

\* createEpub: e.Write, and the return of createEpub
WriteEpub ==
    /\ pc = "write"
    /\ steps' = Append(steps, "write")
    /\ tmpFile' = osRemove(tmpFile)
    /\ \E ok \in BOOLEAN :
         IF ok
         THEN /\ outFile' \in epubWrite(TRUE, outFile)
              /\ runErr' = runErr
              /\ pc' = "created"
         ELSE /\ outFile' \in epubWrite(FALSE, outFile)
              /\ runErr' = CreateEpubError("failed to write epub file", ErrEpubLib)
              /\ pc' = "returned"
    /\ UNCHANGED <<generateOps, inKind, content, htmlContent, title,
                   e, cssPath, stdout, stderr, exitCode>>

\* runGenerate: the success message and return nil
PrintSuccess ==
    /\ pc = "created"
    /\ stdout' = Append(stdout, SuccessMessage)
    /\ runErr' = Nil
    /\ pc' = "returned"
    /\ UNCHANGED <<generateOps, inKind, outFile, tmpFile, content, htmlContent, title,
                   e, cssPath, stderr, exitCode, steps>>

\* the status the process ends with after Execute: the error rootCmd.Execute
\* returns is discarded and Execute returns nothing
ExitStatus(err) == 0

\* Execute: cobra prints the error runGenerate returned (usage is silenced),
\* then the process ends
Execute ==
    /\ pc = "returned"
    /\ stderr' = IF runErr /= Nil THEN Append(stderr, <<"Error: ">> \o runErr) ELSE stderr
    /\ exitCode' = <<ExitStatus(runErr)>>
    /\ pc' = "exited"
    /\ UNCHANGED <<generateOps, inKind, outFile, tmpFile, content, htmlContent, title,
                   e, cssPath, runErr, stdout, steps>>

Next ==
    \/ Validate
    \/ ReadFile
    \/ Convert
    \/ DetermineTitle
    \/ NewEpub
    \/ SetMetadata
    \/ CreateTemp
    \/ WriteCSS
    \/ AddCSS
    \/ AddCover
    \/ AddContent
    \/ WriteEpub
    \/ PrintSuccess
    \/ Execute

Spec == Init /\ [][Next]_vars

\* the process is sequential and always runs on to its exit
FairSpec == Spec /\ WF_vars(Next)

----------------------------------------------------------------------------
(* Title resolution on its own: the "Determine title" step of runGenerate   *)
(* for every flag, content and readable input path within the bounds.       *)

TitleContents == SeqsUpTo(ContentAlphabet, MaxTitleContentLen)
TitlePaths == {p \in SeqsUpTo(PathAlphabet, MaxTitlePathLen) : IsRegularFilePath(p)}

InitTitle ==
    /\ generateOps \in [markdownFilename : TitlePaths, epubFilename : {"out.epub"},
                        overwrite : {FALSE}, title : TitleFlags,
                        author : {""}, language : {"en"}]
    /\ inKind = "file"
    /\ outFile = "absent"
    /\ tmpFile = "none"
    /\ content \in TitleContents
    /\ htmlContent = convertMarkdownToHTML(content, TRUE).html
    /\ title = <<>>
    /\ e = NoEpub
    /\ cssPath = ""
    /\ runErr = Nil
    /\ stdout = <<>>
    /\ stderr = <<>>
    /\ exitCode = <<>>
    /\ steps = <<"validate", "read", "convert">>
    /\ pc = "title"

TitleSpec == InitTitle /\ [][DetermineTitle]_vars

----------------------------------------------------------------------------
(* extractTitleFromMarkdown on its own, for every content within the bound  *)

ExtractContents == SeqsUpTo(ContentAlphabet, MaxExtractLen)

InitExtract ==
    /\ generateOps = [markdownFilename |-> <<"a">>, epubFilename |-> "out.epub",
                      overwrite |-> FALSE, title |-> <<>>,
                      author |-> "", language |-> "en"]
    /\ inKind = "file"
    /\ outFile = "absent"
    /\ tmpFile = "none"
    /\ content \in ExtractContents
    /\ htmlContent = NoHTML
    /\ title = <<>>
    /\ e = NoEpub
    /\ cssPath = ""
    /\ runErr = Nil
    /\ stdout = <<>>
    /\ stderr = <<>>
    /\ exitCode = <<>>
    /\ steps = <<>>
    /\ pc = "extract"

\* a call of extractTitleFromMarkdown(string(content))
ExtractCall ==
    /\ pc = "extract"
    /\ title' = extractTitleFromMarkdown(content)
    /\ pc' = "extracted"
    /\ UNCHANGED <<generateOps, inKind, outFile, tmpFile, content, htmlContent,
                   e, cssPath, runErr, stdout, stderr, exitCode, steps>>

ExtractSpec == InitExtract /\ [][ExtractCall]_vars

----------------------------------------------------------------------------
(* Vocabulary of the properties *)

Last(s) == s[Len(s)]

Terminal == pc \in {"returned", "exited"}

\* a level-1 heading line: trimmed of surrounding whitespace it begins "# "
IsHeadingLine(l) ==
    LET t == TrimSpace(l) IN Len(t) >= 2 /\ t[1] = "#" /\ t[2] = " "

LinesOf(c) == SplitSeq(c, "\n")

HasHeading(c) == \E i \in 1..Len(LinesOf(c)) : IsHeadingLine(LinesOf(c)[i])

FirstHeadingLine(c) ==
    LinesOf(c)[CHOOSE i \in 1..Len(LinesOf(c)) :
                  /\ IsHeadingLine(LinesOf(c)[i])
                  /\ \A j \in 1..(i - 1) : ~IsHeadingLine(LinesOf(c)[j])]

\* what follows the "# " marker on a heading line trimmed of surrounding whitespace
HeadingText(l) == LET t == TrimSpace(l) IN SubSeq(t, 3, Len(t))

\* the final element of a path that has no trailing separator
FinalElement(path) ==
    LET slashes == {i \in 1..Len(path) : path[i] = "/"}
        from == IF slashes = {} THEN 1
                ELSE 1 + CHOOSE i \in slashes : \A j \in slashes : j <= i
    IN  SubSeq(path, from, Len(path))

DotsOf(name) == {i \in 1..Len(name) : name[i] = "."}

FinalDot(name) == CHOOSE i \in DotsOf(name) : \A j \in DotsOf(name) : j <= i

\* a file name with its final extension removed
WithoutFinalExtension(name) ==
    IF DotsOf(name) = {} THEN name ELSE SubSeq(name, 1, FinalDot(name) - 1)

StepOrder == <<"validate", "read", "convert", "title", "newEpub", "setMeta",
               "createTemp", "writeCSS", "addCSS", "addCover", "addContent", "write">>

IsPrefix(s, t) == Len(s) <= Len(t) /\ SubSeq(t, 1, Len(s)) = s

UpToConvert == <<"validate", "read", "convert">>

ConversionFailed == Terminal /\ steps = UpToConvert

----------------------------------------------------------------------------
(* Properties *)

C2_ValidateContract ==
    [][pc = "start" =>
         /\ inKind' = inKind /\ outFile' = outFile /\ tmpFile' = tmpFile
         /\ inKind = "absent" => (runErr' = ErrMissingInput /\ pc' = "returned")
         /\ (inKind /= "absent" /\ outFile /= "absent" /\ ~generateOps.overwrite)
               => (runErr' = ErrOutputExists /\ pc' = "returned")
         /\ (inKind /= "absent" /\ (outFile = "absent" \/ generateOps.overwrite))
               => (runErr' = Nil /\ pc' = "read")
      ]_vars

\* C2 witness: validation has passed over an existing output with overwrite set
C2_Witness ==
    /\ pc = "read"
    /\ steps = <<"validate">>
    /\ outFile = "old"
    /\ generateOps.overwrite
    /\ runErr = Nil

\* C3: while the output path holds the file from before the run and overwrite
\* is off, every step of the run leaves that file in place, reads nothing,
\* converts nothing, creates no temporary file, and is the validation failing
\* or the exit that follows it.
C3_NoWorkAfterValidationError ==
    [][(outFile = "old" /\ ~generateOps.overwrite) =>
         /\ outFile' = "old"
         /\ steps' = <<"validate">>
         /\ runErr' \in {ErrMissingInput, ErrOutputExists}
         /\ pc' \in {"returned", "exited"}
         /\ content' = <<>>
         /\ htmlContent' = NoHTML
         /\ e' = NoEpub
         /\ tmpFile' = "none"
      ]_vars

\* C3 witness: a run over an existing input and an existing output, overwrite
\* off, has ended with the output-exists error
C3_Witness ==
    /\ pc = "exited"
    /\ inKind = "file"
    /\ outFile = "old"
    /\ ~generateOps.overwrite
    /\ runErr = ErrOutputExists
    /\ steps = <<"validate">>

\* C4: once createEpub has returned, on success or on the failure of any of
\* its steps, no temporary stylesheet file exists.
C4_NoTempFileLeft ==
    pc \in {"created", "returned", "exited"} => tmpFile \in {"none", "removed"}

\* C4 witness: the run ended on a failed cover section, after the temporary
\* file had been created and written, and the file is removed
C4_Witness ==
    /\ pc = "exited"
    /\ Last(steps) = "addCover"
    /\ runErr = CreateEpubError("failed to add cover page", ErrEpubLib)
    /\ tmpFile = "removed"

\* C5: at the end of the process, a run without error has printed the success
\* message and has status 0; a run with an error has not printed the success
\* message, has printed the error, and has a nonzero status.
C5_ExitReflectsOutcome ==
    pc = "exited" =>
        IF runErr = Nil
        THEN stdout = <<SuccessMessage>> /\ exitCode = <<0>>
        ELSE /\ stdout = <<>>
             /\ stderr = << <<"Error: ">> \o runErr >>
             /\ exitCode /= <<0>>

\* C6 as claimed: a run started over an existing Markdown file and an absent
\* output path eventually ends successfully with the output file present.
C6_AlwaysSucceeds ==
    (pc = "start" /\ inKind = "file" /\ outFile = "absent")
        ~> (pc = "exited" /\ runErr = Nil /\ outFile = "new"
            /\ stdout = <<SuccessMessage>>)

\* C6 as amended: a run started over an existing Markdown file and an absent
\* output path passes validation and eventually ends; it ends successfully,
\* the output file present and the success message printed, unless a step
\* after validation reported an error, and then it ends with that step's error
\* and without the success message.
C6_SucceedsUnlessStepFails ==
    (pc = "start" /\ inKind = "file" /\ outFile = "absent")
        ~> /\ pc = "exited"
           /\ Len(steps) >= 2
           /\ \/ /\ runErr = Nil
                 /\ steps = StepOrder
                 /\ outFile = "new"
                 /\ stdout = <<SuccessMessage>>
              \/ /\ runErr /= Nil
                 /\ runErr \notin {ErrMissingInput, ErrOutputExists}
                 /\ Last(steps) \in {"read", "convert", "newEpub", "createTemp",
                                     "writeCSS", "addCSS", "addCover", "addContent",
                                     "write"}
                 /\ stdout = <<>>

\* C6 witness: a run without overwrite has ended successfully with the new
\* output file, so the output path was absent when it started
C6_Witness ==
    /\ pc = "exited"
    /\ inKind = "file"
    /\ ~generateOps.overwrite
    /\ runErr = Nil
    /\ outFile = "new"
    /\ stdout = <<SuccessMessage>>

\* C7 as claimed: the resolved title is not empty when the input path is not
\* empty.
C7_TitleNonEmpty ==
    (pc = "newEpub" /\ generateOps.markdownFilename /= <<>>) => title /= <<>>

\* C7 as amended: the resolved title is not empty when the final element of
\* the input path has at least one character before its final dot (or has no
\* dot and is not empty).
C7_TitleNonEmptyForCleanStem ==
    LET name == FinalElement(generateOps.markdownFilename) IN
      (pc = "newEpub" /\ name /= <<>> /\ (DotsOf(name) = {} \/ FinalDot(name) > 1))
          => title /= <<>>

\* C7 witness: no flag, no heading, and the file name a.a resolves to a
C7_Witness ==
    /\ pc = "newEpub"
    /\ generateOps.title = <<>>
    /\ ~HasHeading(content)
    /\ generateOps.markdownFilename = <<"a", ".", "a">>
    /\ title = <<"a">>

\* C8: extractTitleFromMarkdown returns, for the first line that trimmed of
\* surrounding whitespace begins "# ", the rest of that line trimmed of
\* whitespace at both ends, whatever the later lines are, and the empty string
\* exactly when no line matches.
C8_FirstHeadingTrimmed ==
    pc = "extracted" =>
        /\ title = IF HasHeading(content)
                   THEN TrimSpace(HeadingText(FirstHeadingLine(content)))
                   ELSE <<>>
        /\ (title = <<>>) <=> ~HasHeading(content)

\* C9: the steps run in the one order and each at most once; every section
\* refers to a stylesheet already attached; the cover section comes first and
\* the content section second; the output path differs from its state before
\* the run only after the write step, reached after every earlier step; and
\* once a step has failed no step follows and the output path stays as it is.
C9_StepOrder ==
    /\ [](/\ IsPrefix(steps, StepOrder)
          /\ \A i \in 1..Len(e.sections) : e.sections[i].css \in e.css
          /\ Len(e.sections) <= 2
          /\ Len(e.sections) >= 1 => /\ e.sections[1].file = "cover.xhtml"
                                     /\ e.sections[1].body = generateCoverPage(title)
                                     /\ "addCover" \in {steps[i] : i \in 1..Len(steps)}
          /\ Len(e.sections) = 2 => /\ e.sections[2].body = htmlContent
                                    /\ Last(steps) \in {"addContent", "write"}
          /\ outFile \in {"new", "partial"} => steps = StepOrder
          /\ (runErr /= Nil /\ Last(steps) /= "write") => outFile \in {"absent", "old"})
    /\ [][runErr /= Nil => (steps' = steps /\ outFile' = outFile /\ e' = e)]_vars

\* C9 witness: the content section failed after the cover section was added,
\* over an existing output about to be overwritten, which is untouched
C9_Witness ==
    /\ pc = "exited"
    /\ runErr /= Nil
    /\ Last(steps) = "addContent"
    /\ Len(e.sections) = 1
    /\ generateOps.overwrite
    /\ outFile = "old"

\* C10 as claimed: when the conversion fails the run reports exactly the
\* converter's error.
C10_ReportedVerbatim ==
    ConversionFailed =>
        /\ runErr = ErrGoldmark
        /\ pc = "exited" => stderr = << <<"Error: ">> \o ErrGoldmark >>

\* C10 as amended: when the conversion fails, runGenerate reports the
\* converter's error wrapped once in "failed to convert markdown to HTML";
\* the conversion ran once and no assembly step ran.
C10_ReportedWrappedOnce ==
    ConversionFailed =>
        /\ runErr = <<"failed to convert markdown to HTML">> \o ErrGoldmark
        /\ pc = "exited" => stderr = << <<"Error: ">> \o runErr >>
        /\ htmlContent = NoHTML
        /\ e = NoEpub
        /\ tmpFile = "none"
        /\ outFile \in {"absent", "old"}

\* C10 witness: the process has ended on a failed conversion
C10_Witness ==
    /\ pc = "exited"
    /\ steps = UpToConvert
    /\ runErr /= Nil
    /\ stderr /= <<>>

=============================================================================
